---- MODULE Spec2Model ----
(***************************************************************************)
(* Model of netlify/functions/payments.js: the request handler that looks  *)
(* up a contact's deals in the CRM and renders a payment summary, and the  *)
(* ledger computation of renderDealPortal.                                 *)
(*                                                                         *)
(* JavaScript strings are modelled as sequences of one-character strings,  *)
(* so that split / trim / Number are computed as the code computes them.   *)
(* null and undefined are both the value NULL.                             *)
(***************************************************************************)
EXTENDS Integers, Sequences, FiniteSets, TLC

\* ---------------------------------------------------------------- bounds
NumReqs == 2
MaxChars == 5

\* ------------------------------------------------------- values, strings
NULL == <<"null">>

Truthy(v) == v /= NULL /\ v /= <<>>

OrEmpty(v) == IF Truthy(v) THEN v ELSE <<>>

Digits == {"0", "1", "2", "3", "4", "5", "6", "7", "8", "9"}

DigitVal(c) ==
  CASE c = "0" -> 0 [] c = "1" -> 1 [] c = "2" -> 2 [] c = "3" -> 3
    [] c = "4" -> 4 [] c = "5" -> 5 [] c = "6" -> 6 [] c = "7" -> 7
    [] c = "8" -> 8 [] c = "9" -> 9

DigitChar(d) ==
  CASE d = 0 -> "0" [] d = 1 -> "1" [] d = 2 -> "2" [] d = 3 -> "3"
    [] d = 4 -> "4" [] d = 5 -> "5" [] d = 6 -> "6" [] d = 7 -> "7"
    [] d = 8 -> "8" [] d = 9 -> "9"

\* JS numbers: NaN, or a (here: integral) value.
NaN == [nan |-> TRUE, val |-> 0]

Num(v) == [nan |-> FALSE, val |-> v]

isNaN(n) == n.nan

RECURSIVE TrimStart(_)
TrimStart(s) ==
  IF s /= <<>> /\ Head(s) = " " THEN TrimStart(Tail(s)) ELSE s

RECURSIVE TrimEnd(_)
TrimEnd(s) ==
  IF s /= <<>> /\ s[Len(s)] = " " THEN TrimEnd(SubSeq(s, 1, Len(s) - 1)) ELSE s

\* String.prototype.trim
Trim(s) == TrimEnd(TrimStart(s))

\* String.prototype.split(","): always at least one part.
RECURSIVE SplitFrom(_, _)
SplitFrom(s, cur) ==
  IF s = <<>> THEN <<cur>>
  ELSE IF Head(s) = "," THEN <<cur>> \o SplitFrom(Tail(s), <<>>)
  ELSE SplitFrom(Tail(s), Append(cur, Head(s)))

Split(s) == SplitFrom(s, <<>>)

RECURSIVE DecimalValue(_, _)
DecimalValue(s, acc) ==
  IF s = <<>> THEN acc ELSE DecimalValue(Tail(s), 10 * acc + DigitVal(Head(s)))

\* Number(str) on the strings of the model: surrounding whitespace is ignored,
\* the empty string is 0, a run of decimal digits is its value, the rest NaN.
Number(s) ==
  LET t == Trim(s) IN
  IF t = <<>> THEN Num(0)
  ELSE IF \A i \in 1..Len(t) : t[i] \in Digits THEN Num(DecimalValue(t, 0))
  ELSE NaN

\* A plausible slip: no guard, so that null and "" coerce to 0 as Number does.
safeNumberUnguarded(val) == IF val = NULL THEN Num(0) ELSE Number(val)

safeNumber(val) ==
  IF val = NULL \/ val = <<>> THEN NaN
  ELSE LET num == Number(val) IN IF isNaN(num) THEN NaN ELSE num

RECURSIVE NatDigits(_)
NatDigits(n) ==
  IF n < 10 THEN <<DigitChar(n)>> ELSE Append(NatDigits(n \div 10), DigitChar(n % 10))

\* en-US grouping: a comma before every group of three digits.
RECURSIVE Grouped(_)
Grouped(ds) ==
  IF Len(ds) <= 3 THEN ds
  ELSE Grouped(SubSeq(ds, 1, Len(ds) - 3)) \o <<",">> \o SubSeq(ds, Len(ds) - 2, Len(ds))

\* num.toLocaleString("en-US", {minimumFractionDigits: 2, maximumFractionDigits: 2})
toLocaleString(v) ==
  (IF v < 0 THEN <<"-">> ELSE <<>>)
    \o Grouped(NatDigits(IF v < 0 THEN -v ELSE v)) \o <<".", "0", "0">>

\* The em-dash placeholder, one character.
EmDash == <<"emdash">>

formatCurrency(num) ==
  IF isNaN(num) THEN EmDash ELSE <<"$">> \o toLocaleString(num.val)

\* ------------------------------------------------------------- deals
PAYMENT_FIELDS == <<"payment_1", "payment_2", "payment_3", "payment_4", "payment_5">>

\* The properties requested from the CRM for a deal.
DealProps ==
  {"dealname", "amount", "total_amount_paid"}
    \cup {PAYMENT_FIELDS[i] : i \in 1..Len(PAYMENT_FIELDS)}

\* p[key] of a JS object: undefined (NULL) when the key is absent.
Get(p, key) == IF key \in DOMAIN p THEN p[key] ELSE NULL

\* p.key = val
Put(p, key, val) == (key :> val) @@ p

\* parts[i] of a JS array, 0-based: undefined (NULL) past the end.
At(parts, i) == IF i + 1 <= Len(parts) THEN parts[i + 1] ELSE NULL

\* One iteration of the PAYMENT_FIELDS.forEach callback: the payments the field
\* pushes (none or one).
ParsePaymentField(raw) ==
  IF ~Truthy(raw) THEN <<>>
  ELSE LET split == Split(raw)
           parts == [i \in 1..Len(split) |-> Trim(split[i])]
       IN IF ~Truthy(At(parts, 0)) THEN <<>>
          ELSE LET amount == safeNumber(At(parts, 0))
                   txn == OrEmpty(At(parts, 1))
                   date == OrEmpty(At(parts, 2))
               IN IF ~isNaN(amount)
                    THEN <<[amount |-> amount, txn |-> txn, date |-> date]>>
                    ELSE <<>>

RECURSIVE ParsePayments(_, _)
ParsePayments(p, k) ==
  IF k > Len(PAYMENT_FIELDS) THEN <<>>
  ELSE ParsePaymentField(Get(p, PAYMENT_FIELDS[k])) \o ParsePayments(p, k + 1)

\* sum + (pay.amount || 0): NaN is absorbing, 0 and NaN amounts count as 0.
RECURSIVE ReduceSum(_, _)
ReduceSum(payments, sum) ==
  IF payments = <<>> THEN sum
  ELSE LET a == Head(payments).amount
           add == IF isNaN(a) THEN 0 ELSE a.val
       IN ReduceSum(Tail(payments), sum + add)

\* A plausible slip: totalPaidFromField || sum, which skips an override of 0.
TotalPaidOrSum(totalPaidFromField, payments) ==
  IF ~isNaN(totalPaidFromField) /\ totalPaidFromField.val /= 0 THEN totalPaidFromField
  ELSE Num(ReduceSum(payments, 0))

TotalPaid(totalPaidFromField, payments) ==
  IF ~isNaN(totalPaidFromField) THEN totalPaidFromField
  ELSE Num(ReduceSum(payments, 0))

Remaining(programFee, totalPaid) ==
  IF ~isNaN(programFee) /\ ~isNaN(totalPaid)
    THEN Num(programFee.val - totalPaid.val)
    ELSE NaN

\* The links of the breadcrumb bar, as the query parameters they carry.
renderBreadcrumbs(email, origin, showSelection) ==
  [homeUrl |-> IF Truthy(origin)
                 THEN [external |-> TRUE, email |-> <<>>, origin |-> origin]
                 ELSE [external |-> FALSE, email |-> email, origin |-> <<>>],
   selectUrl |-> IF showSelection
                   THEN [external |-> FALSE, email |-> email,
                         origin |-> IF Truthy(origin) THEN origin ELSE <<>>]
                   ELSE [external |-> FALSE, email |-> <<>>, origin |-> <<>>],
   showSelection |-> showSelection]

renderDealPortal(deal) ==
  LET p == deal.properties
      programFee == safeNumber(Get(p, "amount"))
      totalPaidFromField == safeNumber(Get(p, "total_amount_paid"))
      payments == ParsePayments(p, 1)
      totalPaid == TotalPaid(totalPaidFromField, payments)
      remaining == Remaining(programFee, totalPaid)
  IN [page |-> "portal",
      title |-> "Payment Summary",
      dealId |-> deal.id,
      programName |-> IF Truthy(Get(p, "dealname")) THEN Get(p, "dealname") ELSE <<"Your Program">>,
      breadcrumbs |-> renderBreadcrumbs(OrEmpty(Get(p, "email")),
                                        OrEmpty(Get(p, "origin")), TRUE),
      programFee |-> programFee,
      totalPaid |-> totalPaid,
      remaining |-> remaining,
      payments |-> payments,
      feeStr |-> formatCurrency(programFee),
      paidStr |-> formatCurrency(totalPaid),
      remainingStr |-> formatCurrency(remaining),
      paymentRows |-> [i \in 1..Len(payments) |->
                         [amount |-> formatCurrency(payments[i].amount),
                          date |-> OrEmpty(payments[i].date),
                          txn |-> OrEmpty(payments[i].txn)]]]

\* One card of the selection page: the link's search parameters and the texts.
SelectionCard(deal, origin) ==
  LET p == deal.properties
      amount == safeNumber(Get(p, "amount"))
  IN [link |-> [dealId |-> deal.id,
                email |-> OrEmpty(Get(p, "email")),
                origin |-> IF Truthy(origin) THEN origin ELSE NULL],
      name |-> IF Truthy(Get(p, "dealname")) THEN Get(p, "dealname") ELSE <<"Program">>,
      amountStr |-> IF isNaN(amount) THEN <<>> ELSE <<"$">> \o toLocaleString(amount.val)]

renderDealSelectionPage(deals, origin) ==
  [page |-> "selection",
   title |-> "Select a Program",
   breadcrumbs |-> renderBreadcrumbs(
                     IF deals /= <<>> THEN OrEmpty(Get(deals[1].properties, "email")) ELSE <<>>,
                     origin, FALSE),
   cards |-> [i \in 1..Len(deals) |-> SelectionCard(deals[i], origin)]]

basicPage(title, email) == [page |-> "basic", title |-> title, email |-> email]

htmlResponse(statusCode, html) ==
  [statusCode |-> statusCode, contentType |-> "text/html; charset=utf-8", body |-> html]

textResponse(statusCode, text) ==
  [statusCode |-> statusCode, contentType |-> "text/plain; charset=utf-8",
   body |-> [page |-> "text", text |-> text]]

\* ------------------------------------------------------------ the CRM
\* Request parameters: url.searchParams.get(...) is a string or null.
EmailA == <<"a", "@", "x">>

EmailB == <<"b", "@", "x">>

D1 == <<"d", "1">>

D2 == <<"d", "2">>

D9 == <<"d", "9">>

Emails == {NULL, EmailA, EmailB}

DealIdParams == {NULL, D1, D9}

Origins == {NULL, <<"o">>}

\* The requests made: every combination of email and dealId; the requests of
\* EmailB come with an origin, the others without one.
Events ==
  {e \in [email : Emails, dealId : DealIdParams, origin : Origins] :
     e.email = EmailB <=> e.origin /= NULL}

\* The deals the CRM holds; D9 is an identifier of no deal.
CrmDeals ==
  (D1 :> [k \in DealProps |->
            CASE k = "dealname" -> <<"n", "1">>
              [] k = "amount" -> <<"1", "0", "0", "0">>
              [] k = "payment_1" -> <<"4", "0", "0", ",", "t", ",", "j">>
              [] OTHER -> NULL])
  @@ (D2 :> [k \in DealProps |->
            CASE k = "amount" -> <<"5", "0">>
              [] k = "total_amount_paid" -> <<"6", "0">>
              [] k = "payment_2" -> <<" ", "7", " ", ",", "t">>
              [] OTHER -> NULL])

ExistingDeals == DOMAIN CrmDeals

\* Sequences over S without repetition, of length at most n.
SeqsNoRep(S, n) ==
  {q \in UNION {[1..k -> S] : k \in 0..n} :
     \A i, j \in 1..Len(q) : i /= j => q[i] /= q[j]}

\* toObjectId values of an association list: deals, and a missing id.
AssocIds == {D1, D2, NULL}

\* A response body with a results array, or without one.
Results(list) == [present |-> TRUE, results |-> list]

NoResults == [present |-> FALSE, results |-> <<>>]

\* The ids are listed in increasing order of identifier, a missing id last.
Before(a, b) ==
  LET rank == (D1 :> 1) @@ (D2 :> 2) @@ (NULL :> 3) IN rank[a] < rank[b]

AssocBodies ==
  {NoResults} \cup
  {Results(q) : q \in {q \in SeqsNoRep(AssocIds, Cardinality(AssocIds)) :
                         \A i, j \in 1..Len(q) : i < j => Before(q[i], q[j])}}

\* The batch read answers with those of the deals asked for that it can read
\* (any of them may be gone by now), in an order of its choosing.
BatchBodies(dealIds) ==
  LET asked == {dealIds[i] : i \in 1..Len(dealIds)} \cap ExistingDeals
  IN {NoResults} \cup
     {Results([i \in 1..Len(q) |-> [id |-> q[i], properties |-> CrmDeals[q[i]]]]) :
        q \in SeqsNoRep(asked, Cardinality(asked))}

\* Non-success statuses of a call; 404 is the CRM's answer for an object it
\* does not hold.
FailStatuses(op, arg) ==
  {503} \cup (IF op = "deal" /\ arg \notin ExistingDeals THEN {404} ELSE {})

\* ------------------------------------------------------------- state
Reqs == 1..NumReqs

VARIABLES
  token,               \* process.env.HUBSPOT_PRIVATE_APP_TOKEN is set
  contactEmailGlobal,  \* the module-level variable
  event,               \* per invocation: the query parameters of event.rawUrl
  pc,                  \* per invocation: the await it is suspended at
  calls,               \* per invocation: the CRM calls issued so far, in order
  local,               \* per invocation: its local variables
  response,            \* per invocation: the value the handler returned
  deal,                \* ledger: the deal handed to renderDealPortal
  portal               \* ledger: the page renderDealPortal returned

vars == <<token, contactEmailGlobal, event, pc, calls, local, response, deal, portal>>

NoEvent == [email |-> NULL, dealId |-> NULL, origin |-> NULL]

NoLocal ==
  [origin |-> <<>>, contact |-> NULL, dealIds |-> <<>>, batch |-> <<>>,
   stamped |-> <<>>, failed |-> 0, status |-> 0]

NoResponse == [statusCode |-> 0, contentType |-> "", body |-> [page |-> "none"]]

NoPortal == [page |-> "none"]

EmptyDeal == [id |-> D1, properties |-> [k \in DealProps |-> NULL]]

Call(op, arg) == [op |-> op, arg |-> arg]

\* ------------------------------------------------------- the handler
Awaiting == {"getDealById", "findContactByEmail", "associations", "batchRead"}

\* return <resp> from exports.handler
Respond(r, resp) ==
  /\ response' = [response EXCEPT ![r] = resp]
  /\ pc' = [pc EXCEPT ![r] = "done"]

\* hubSpotFetch calls fetch() and the invocation is suspended at the await.
Issue(r, op, arg, at) ==
  /\ calls' = [calls EXCEPT ![r] = Append(@, Call(op, arg))]
  /\ pc' = [pc EXCEPT ![r] = at]
  /\ UNCHANGED response

\* A plausible slip: the email is looked at before the dealId.
RouteEmailFirst(hasToken, email, dealId) ==
  IF ~hasToken THEN "config"
  ELSE IF Truthy(email) THEN "contact"
  ELSE IF Truthy(dealId) THEN "deal"
  ELSE "missing"

\* A plausible slip: the credential is checked only on the email path.
RouteTokenLate(hasToken, email, dealId) ==
  IF Truthy(dealId) THEN "deal"
  ELSE IF ~hasToken THEN "config"
  ELSE IF ~Truthy(email) THEN "missing"
  ELSE "contact"

\* The order of the handler's checks before its first CRM call.
Route(hasToken, email, dealId) ==
  IF ~hasToken THEN "config"
  ELSE IF Truthy(dealId) THEN "deal"
  ELSE IF ~Truthy(email) THEN "missing"
  ELSE "contact"

\* The handler from its entry to its first await or return.
Start(r, email, dealId, originParam) ==
  /\ pc[r] = "idle"
  /\ \A q \in Reqs : q < r => pc[q] /= "idle"
  /\ event' = [event EXCEPT ![r] = [email |-> email, dealId |-> dealId, origin |-> originParam]]
  /\ local' = [local EXCEPT ![r].origin = OrEmpty(originParam)]
  /\ contactEmailGlobal' = email
  /\ LET route == Route(token, email, dealId) IN
       CASE route = "config" ->
              /\ Respond(r, textResponse(500, "HubSpot token not configured. Please set HUBSPOT_PRIVATE_APP_TOKEN in Netlify."))
              /\ UNCHANGED calls
         [] route = "deal" -> Issue(r, "deal", dealId, "getDealById")
         [] route = "missing" ->
              /\ Respond(r, htmlResponse(400, basicPage("Missing email", <<>>)))
              /\ UNCHANGED calls
         [] route = "contact" -> Issue(r, "contactSearch", email, "findContactByEmail")
  /\ UNCHANGED <<token, deal, portal>>

\* A plausible slip: the CRM's status is passed on to the caller.
CatchEcho(r, status) == Respond(r, textResponse(status, "HubSpot API error"))

\* The handler's catch block, entered with the error of a call that failed
\* with `status`.
Catch(r, status) == Respond(r, textResponse(500, "Unexpected error"))

\* hubSpotFetch: the CRM answered the outstanding call with a non-success
\* status; the body is read and logged, the error thrown and caught.
FetchFails(r, status) ==
  /\ pc[r] \in Awaiting
  /\ status \in FailStatuses(calls[r][Len(calls[r])].op, calls[r][Len(calls[r])].arg)
  /\ local' = [local EXCEPT ![r].status = status, ![r].failed = Len(calls[r])]
  /\ Catch(r, status)
  /\ UNCHANGED <<token, contactEmailGlobal, event, calls, deal, portal>>

\* The bodies the CRM may send for a successful single-deal read.
DealBodies(dealId) ==
  IF dealId \in ExistingDeals
    THEN {[id |-> dealId, properties |-> CrmDeals[dealId]]}
    ELSE {[id |-> NULL, properties |-> <<>>]}

\* The value of getDealById that stands for null.
NoDeal == [id |-> NULL, properties |-> <<>>]

\* An absent data.properties is the empty object already.
getDealById(data) ==
  IF ~Truthy(data.id) THEN NoDeal
  ELSE [id |-> data.id, properties |-> data.properties]

\* A plausible slip: the email the batch fetch stamped is kept.
StampKeepEmail(d, email, origin) ==
  [d EXCEPT !.properties =
     Put(IF "email" \in DOMAIN @ THEN @ ELSE Put(@, "email", email), "origin", origin)]

\* deal.properties.email = email; deal.properties.origin = origin
Stamp(d, email, origin) ==
  [d EXCEPT !.properties = Put(Put(@, "email", email), "origin", origin)]

\* The single-deal read succeeded: the handler runs to its return.
DealReturns(r, data) ==
  /\ pc[r] = "getDealById"
  /\ data \in DealBodies(event[r].dealId)
  /\ LET d == getDealById(data) IN
       IF d = NoDeal
         THEN Respond(r, textResponse(404, "Could not find that program / deal."))
         ELSE Respond(r, htmlResponse(200,
                renderDealPortal(Stamp(d, event[r].email, local[r].origin))))
  /\ UNCHANGED <<token, contactEmailGlobal, event, calls, local, deal, portal>>

ContactId(email) == <<"c">> \o email

ContactBodies(email) == {NoResults, Results(<<>>), Results(<<[id |-> ContactId(email)]>>)}

findContactByEmail(data) ==
  IF ~data.present \/ Len(data.results) = 0 THEN NULL ELSE data.results[1].id

\* The contact search succeeded: not found, or on to the association lookup.
ContactReturns(r, data) ==
  /\ pc[r] = "findContactByEmail"
  /\ data \in ContactBodies(event[r].email)
  /\ LET contact == findContactByEmail(data) IN
       IF contact = NULL
         THEN /\ Respond(r, htmlResponse(404, basicPage("No account found", event[r].email)))
              /\ UNCHANGED <<calls, local>>
         ELSE /\ local' = [local EXCEPT ![r].contact = contact]
              /\ Issue(r, "assoc", contact, "associations")
  /\ UNCHANGED <<token, contactEmailGlobal, event, deal, portal>>

\* assocData.results?.map((r) => r.toObjectId).filter(Boolean) || []
DealIdsOf(assocData) ==
  IF ~assocData.present THEN <<>> ELSE SelectSeq(assocData.results, Truthy)

\* The handler from the value getDealsForContact returned to its return.
HandleDeals(r, deals) ==
  IF Len(deals) = 0
    THEN Respond(r, htmlResponse(404, basicPage("No programs found", event[r].email)))
    ELSE IF Len(deals) = 1
      THEN Respond(r, htmlResponse(200,
             renderDealPortal(Stamp(deals[1], event[r].email, local[r].origin))))
      ELSE Respond(r, htmlResponse(200, renderDealSelectionPage(deals, local[r].origin)))

\* A plausible slip: the batch read is issued for an empty list too.
NoEarlyReturn(dealIds) == FALSE

\* if (dealIds.length === 0) return [];
EarlyReturn(dealIds) == Len(dealIds) = 0

\* The association lookup succeeded: no ids, or on to the batch read.
AssocReturns(r, assocData) ==
  /\ pc[r] = "associations"
  /\ assocData \in AssocBodies
  /\ LET dealIds == DealIdsOf(assocData) IN
       IF EarlyReturn(dealIds)
         THEN /\ HandleDeals(r, <<>>)
              /\ UNCHANGED <<calls, local>>
         ELSE /\ local' = [local EXCEPT ![r].dealIds = dealIds]
              /\ Issue(r, "batch", dealIds, "batchRead")
  /\ UNCHANGED <<token, contactEmailGlobal, event, deal, portal>>

\* A plausible slip: the deals come out in the opposite order.
StampBatchReversed(batch, email) ==
  IF ~batch.present THEN <<>>
  ELSE [i \in 1..Len(batch.results) |->
          [id |-> batch.results[Len(batch.results) + 1 - i].id,
           properties |->
             Put(batch.results[Len(batch.results) + 1 - i].properties, "email", email)]]

\* batch.results?.map((d) => ({id, properties: {...d.properties, email: contactEmailGlobal}})) || []
StampBatch(batch, email) ==
  IF ~batch.present THEN <<>>
  ELSE [i \in 1..Len(batch.results) |->
          [id |-> batch.results[i].id,
           properties |-> Put(batch.results[i].properties, "email", email)]]

\* The batch read succeeded: getDealsForContact returns and the handler runs
\* to its return.
BatchReturns(r, batch) ==
  /\ pc[r] = "batchRead"
  /\ batch \in BatchBodies(local[r].dealIds)
  /\ LET deals == StampBatch(batch, contactEmailGlobal) IN
       /\ local' = [local EXCEPT
            ![r].batch = [i \in 1..Len(batch.results) |-> batch.results[i].id],
            ![r].stamped = [i \in 1..Len(deals) |-> Get(deals[i].properties, "email")]]
       /\ HandleDeals(r, deals)
  /\ UNCHANGED <<token, contactEmailGlobal, event, calls, deal, portal>>

HandlerNext ==
  \E r \in Reqs :
    \/ \E e \in Events : Start(r, e.email, e.dealId, e.origin)
    \/ \E status \in {404, 503} : FetchFails(r, status)
    \/ \E data \in UNION {DealBodies(d) : d \in DealIdParams \ {NULL}} : DealReturns(r, data)
    \/ \E data \in UNION {ContactBodies(e) : e \in Emails} : ContactReturns(r, data)
    \/ \E assocData \in AssocBodies : AssocReturns(r, assocData)
    \/ \E batch \in BatchBodies(local[r].dealIds) : BatchReturns(r, batch)

Init ==
  /\ token \in BOOLEAN
  /\ contactEmailGlobal = NULL
  /\ event = [r \in Reqs |-> NoEvent]
  /\ pc = [r \in Reqs |-> "idle"]
  /\ calls = [r \in Reqs |-> <<>>]
  /\ local = [r \in Reqs |-> NoLocal]
  /\ response = [r \in Reqs |-> NoResponse]
  /\ deal = EmptyDeal
  /\ portal = NoPortal

Next == HandlerNext

Spec == Init /\ [][Next]_vars

\* ------------------------------------------------------- the ledger
\* The characters of the property values tried.
Chars == {"0", "1", " ", ",", "a"}

Strs(n) == UNION {[1..k -> Chars] : k \in 0..n}

LedgerKeys == <<"amount", "total_amount_paid">> \o PAYMENT_FIELDS

\* The size of a deal: per property set, its characters and one more.
RECURSIVE Cost(_, _)
Cost(p, k) ==
  IF k > Len(LedgerKeys) THEN 0
  ELSE (IF p[LedgerKeys[k]] = NULL THEN 0 ELSE Len(p[LedgerKeys[k]]) + 1) + Cost(p, k + 1)

\* The CRM's deal gets a value for one more of its properties.
SetProperty(key, val) ==
  /\ portal = NoPortal
  /\ deal.properties[key] = NULL
  /\ Cost(deal.properties, 1) + Len(val) + 1 <= MaxChars
  /\ deal' = [deal EXCEPT !.properties[key] = val]
  /\ UNCHANGED <<token, contactEmailGlobal, event, pc, calls, local, response, portal>>

\* renderDealPortal(deal)
RenderPortal ==
  /\ portal = NoPortal
  /\ portal' = renderDealPortal(deal)
  /\ UNCHANGED <<token, contactEmailGlobal, event, pc, calls, local, response, deal>>

LedgerInit == Init /\ token

LedgerNext ==
  \/ \E k \in 1..Len(LedgerKeys) :
       \E val \in Strs(MaxChars - Cost(deal.properties, 1) - 1) :
         SetProperty(LedgerKeys[k], val)
  \/ RenderPortal

LedgerSpec == LedgerInit /\ [][LedgerNext]_vars

\* ------------------------------------------------------- properties
\* The outcome names of the decision tree, read off the response.
Outcome(r) ==
  LET resp == response[r] IN
  CASE resp.body.page = "none" -> "None"
    [] resp.body.page = "portal" -> "SinglePortal"
    [] resp.body.page = "selection" -> "SelectionNeeded"
    [] resp.body.page = "basic" /\ resp.body.title = "Missing email" -> "MissingEmail"
    [] resp.body.page = "basic" /\ resp.body.title = "No account found" -> "NoAccount"
    [] resp.body.page = "basic" /\ resp.body.title = "No programs found" -> "NoPrograms"
    [] resp.body.page = "text" /\ resp.statusCode = 404 -> "DealNotFound"
    [] resp.body.page = "text" /\ resp.body.text = "Unexpected error" -> "UpstreamError"
    [] resp.body.page = "text" /\ resp.body.text = "HubSpot token not configured. Please set HUBSPOT_PRIVATE_APP_TOKEN in Netlify." ->
         "ConfigurationError"
    [] OTHER -> "Other"

Ops(r) == [i \in 1..Len(calls[r]) |-> calls[r][i].op]

IsText(r, status) ==
  /\ response[r].statusCode = status
  /\ response[r].contentType = "text/plain; charset=utf-8"
  /\ response[r].body.page = "text"

IsHtml(r, status) ==
  /\ response[r].statusCode = status
  /\ response[r].contentType = "text/html; charset=utf-8"
  /\ response[r].body.page \in {"basic", "portal", "selection"}

\* The association lookup of r returned a list (r.dealIds holds its ids).
AssocReturned(r) ==
  /\ Len(calls[r]) >= 2
  /\ calls[r][1].op = "contactSearch"
  /\ local[r].failed /= 2
  /\ pc[r] /= "associations"

\* The batch read of r returned (r.batch holds the ids of its deals).
BatchReturned(r) ==
  /\ Len(calls[r]) = 3
  /\ local[r].failed = 0
  /\ pc[r] = "done"

CardDealIds(r) ==
  [i \in 1..Len(response[r].body.cards) |-> response[r].body.cards[i].link.dealId]

\* C1: under any interleaving, every deal of a SelectionNeeded outcome is
\* stamped with the email of its own request, and so every link of the
\* selection page carries that email.
C1_SelectionCarriesOwnEmail ==
  \A r \in Reqs :
    Outcome(r) = "SelectionNeeded" =>
      /\ \A i \in 1..Len(local[r].stamped) : local[r].stamped[i] = event[r].email
      /\ \A i \in 1..Len(response[r].body.cards) :
           response[r].body.cards[i].link.email = event[r].email

\* C2: a request with a dealId of which the CRM holds no deal (the CRM says so:
\* the call is not cut short by an outage) ends in DealNotFound, 404 plain
\* text, and not in the generic 500.
C2_AbsentDealIsDealNotFound ==
  \A r \in Reqs :
    ( /\ pc[r] = "done"
      /\ token
      /\ Truthy(event[r].dealId)
      /\ event[r].dealId \notin ExistingDeals
      /\ local[r].status /= 503 )
    => /\ Outcome(r) = "DealNotFound"
       /\ IsText(r, 404)

\* C3: with a dealId (and the credential) the only CRM call ever issued is the
\* single-deal fetch, whether or not an email is supplied, and the outcome of
\* the decision tree is SinglePortal or DealNotFound, never MissingEmail,
\* NoAccount, NoPrograms or SelectionNeeded. The one way to end without an
\* outcome is the error response of C7, exactly when that fetch fails.
C3_DealIdShortCircuits ==
  \A r \in Reqs :
    (token /\ Truthy(event[r].dealId) /\ pc[r] /= "idle") =>
      /\ Ops(r) = <<"deal">>
      /\ calls[r][1].arg = event[r].dealId
      /\ pc[r] = "done" =>
           /\ Outcome(r) \in {"SinglePortal", "DealNotFound", "UpstreamError"}
           /\ Outcome(r) = "UpstreamError" <=> local[r].failed = 1

C3_Witness ==
  \E r \in Reqs :
    /\ token
    /\ Truthy(event[r].dealId)
    /\ Truthy(event[r].email)
    /\ Outcome(r) = "SinglePortal"

\* C4: without the credential every request is answered 500 plain text and
\* issues no CRM call at any point.
C4_NoTokenNoCall ==
  \A r \in Reqs :
    (~token /\ pc[r] /= "idle") =>
      /\ pc[r] = "done"
      /\ calls[r] = <<>>
      /\ IsText(r, 500)
      /\ Outcome(r) = "ConfigurationError"

C4_Witness ==
  \E r \in Reqs :
    /\ ~token
    /\ pc[r] = "done"
    /\ Truthy(event[r].dealId)
    /\ Truthy(event[r].email)

\* C5, as claimed: for a found contact (none of whose CRM calls fails),
\* NoPrograms if and only if the list of associated deal ids is empty; an
\* empty list issues no batch read, and a non-empty one ends in SinglePortal
\* or SelectionNeeded.
C5_NoProgramsIffNoIds ==
  \A r \in Reqs :
    (AssocReturned(r) /\ pc[r] = "done" /\ local[r].failed = 0) =>
      /\ Outcome(r) = "NoPrograms" <=> local[r].dealIds = <<>>
      /\ local[r].dealIds = <<>> => Len(calls[r]) = 2
      /\ local[r].dealIds /= <<>> => Outcome(r) \in {"SinglePortal", "SelectionNeeded"}

\* C5, amended: for a found contact whose association lookup succeeds, the
\* batch read is issued if and only if the list of ids is non-empty, and
\* NoPrograms (404) is the outcome if and only if the list is empty or the
\* batch read returns no deal; with a non-empty list the outcome is
\* SinglePortal or SelectionNeeded when the batch read returns a deal and
\* NoPrograms when it returns none (a failed batch read ends in the error
\* response of C7).
C5_NoProgramsIffNoDeals ==
  \A r \in Reqs :
    AssocReturned(r) =>
      /\ Len(calls[r]) = 3 <=> local[r].dealIds /= <<>>
      /\ Len(calls[r]) = 3 => /\ calls[r][3].op = "batch"
                               /\ calls[r][3].arg = local[r].dealIds
      /\ pc[r] = "done" =>
           /\ Outcome(r) = "NoPrograms" <=>
                \/ local[r].dealIds = <<>>
                \/ BatchReturned(r) /\ local[r].batch = <<>>
           /\ Outcome(r) = "NoPrograms" => IsHtml(r, 404)
           /\ Outcome(r) = "UpstreamError" <=> local[r].failed = 3
           /\ Outcome(r) \in {"SinglePortal", "SelectionNeeded", "NoPrograms", "UpstreamError"}

C5_Witness ==
  \E r \in Reqs :
    /\ BatchReturned(r)
    /\ local[r].dealIds /= <<>>
    /\ local[r].batch = <<>>
    /\ Outcome(r) = "NoPrograms"

C7_UpstreamFailureIsGeneric500 ==
  \A r \in Reqs :
    local[r].failed /= 0 =>
      /\ pc[r] = "done"
      /\ Len(calls[r]) = local[r].failed
      /\ IsText(r, 500)
      /\ response[r].body.text = "Unexpected error"

C7_Witness ==
  \E r \in Reqs :
    /\ local[r].failed = 2
    /\ local[r].status = 503
    /\ Ops(r) = <<"contactSearch", "assoc">>
    /\ pc[r] = "done"

\* C10: under any interleaving, the deal of a SinglePortal outcome carries the
\* email and the origin of its own request, whatever the module-level
\* variable held when the batch fetch stamped it.
C10_PortalCarriesOwnEmail ==
  \A r \in Reqs :
    Outcome(r) = "SinglePortal" =>
      LET crumbs == response[r].body.breadcrumbs IN
      /\ crumbs.selectUrl.email = OrEmpty(event[r].email)
      /\ crumbs.selectUrl.origin = OrEmpty(event[r].origin)
      /\ crumbs.homeUrl =
           IF event[r].origin /= NULL
             THEN [external |-> TRUE, email |-> <<>>, origin |-> event[r].origin]
             ELSE [external |-> FALSE, email |-> OrEmpty(event[r].email), origin |-> <<>>]

C10_Witness ==
  \E r \in Reqs :
    /\ Outcome(r) = "SinglePortal"
    /\ BatchReturned(r)
    /\ local[r].stamped /= <<event[r].email>>
    /\ contactEmailGlobal /= event[r].email

\* The reading of a property value as a number, stated on its characters:
\* blanks, then decimal digits, then blanks; no digit at all reads as 0.
IsBlank(c) == c = " "

Core(str) == SelectSeq(str, LAMBDA c : ~IsBlank(c))

ReadsAsNumber(str) ==
  /\ str /= NULL
  /\ str /= <<>>
  /\ \A i \in 1..Len(str) : str[i] \in Digits \/ IsBlank(str[i])
  /\ \A i, j, k \in 1..Len(str) :
       (i < j /\ j < k /\ ~IsBlank(str[i]) /\ ~IsBlank(str[k])) => ~IsBlank(str[j])

RECURSIVE ValueOfDigits(_)
ValueOfDigits(ds) ==
  IF ds = <<>> THEN 0
  ELSE DigitVal(ds[Len(ds)]) + 10 * ValueOfDigits(SubSeq(ds, 1, Len(ds) - 1))

ValueOf(str) == ValueOfDigits(Core(str))

\* The text of a payment field before its first comma.
FirstPart(raw) ==
  LET commas == {i \in 1..Len(raw) : raw[i] = ","}
      stop == IF commas = {} THEN Len(raw) + 1
              ELSE CHOOSE i \in commas : \A j \in commas : i <= j
  IN SubSeq(raw, 1, stop - 1)

\* A payment field contributes a payment when it is non-empty and its first
\* part, trimmed, is non-empty and numeric.
Contributes(raw) ==
  /\ raw /= NULL
  /\ raw /= <<>>
  /\ Core(FirstPart(raw)) /= <<>>
  /\ ReadsAsNumber(FirstPart(raw))

RECURSIVE SumOfFields(_, _)
SumOfFields(p, k) ==
  IF k = 0 THEN 0
  ELSE SumOfFields(p, k - 1)
         + (IF Contributes(p[PAYMENT_FIELDS[k]]) THEN ValueOf(FirstPart(p[PAYMENT_FIELDS[k]])) ELSE 0)

ContributingFields(p) ==
  {k \in 1..Len(PAYMENT_FIELDS) : Contributes(p[PAYMENT_FIELDS[k]])}

\* C8: totalPaid is the total-paid override when that property reads as a
\* number, and otherwise the sum of the amounts of the payments parsed from
\* payment_1..payment_5 (0 when there are none); a field yields a payment
\* exactly when it contributes.
C8_TotalPaidIsOverrideOrSum ==
  portal.page = "portal" =>
    LET p == deal.properties IN
    /\ Len(portal.payments) = Cardinality(ContributingFields(p))
    /\ portal.totalPaid =
         IF ReadsAsNumber(p["total_amount_paid"])
           THEN Num(ValueOf(p["total_amount_paid"]))
           ELSE Num(SumOfFields(p, Len(PAYMENT_FIELDS)))

C8_Witness ==
  /\ portal.page = "portal"
  /\ ~ReadsAsNumber(deal.properties["total_amount_paid"])
  /\ Cardinality(ContributingFields(deal.properties)) = 2
  /\ deal.properties["payment_1"] = NULL
  /\ portal.totalPaid = Num(2)

\* C9: remaining is programFee - totalPaid exactly when both are numbers; with
\* the fee absent or non-numeric it is unavailable and rendered as the em-dash,
\* whatever totalPaid is, and a missing fee is never read as zero.
C9_RemainingNeedsFee ==
  portal.page = "portal" =>
    LET fee == deal.properties["amount"] IN
    /\ ~isNaN(portal.totalPaid)
    /\ ReadsAsNumber(fee) =>
         /\ portal.programFee = Num(ValueOf(fee))
         /\ portal.remaining = Num(ValueOf(fee) - portal.totalPaid.val)
         /\ portal.remainingStr = formatCurrency(portal.remaining)
         /\ portal.remainingStr /= EmDash
    /\ ~ReadsAsNumber(fee) =>
         /\ isNaN(portal.programFee)
         /\ isNaN(portal.remaining)
         /\ portal.remainingStr = EmDash
         /\ portal.feeStr = EmDash

C9_Witness ==
  /\ portal.page = "portal"
  /\ deal.properties["amount"] \in {NULL, <<>>}
  /\ portal.totalPaid.val > 0
  /\ portal.remainingStr = EmDash

====
